---------------------------- MODULE Spec2Model ----------------------------
(***************************************************************************)
(* Model of firebase-tools' node trigger discovery                         *)
(* (src/deploy/functions/runtimes/node/parseTriggers.ts) and of the        *)
(* functions:config:export command (src/commands/functions-config-export). *)
(*                                                                         *)
(* Four state machines share the module, one specification each:           *)
(*   SpecBackend  addResourcesToBackend folded over annotations            *)
(*   SpecParse    the promise of parseTriggers and the forked parser       *)
(*   SpecEnv      convertKey / configToEnv                                 *)
(*   SpecExport   the prefix loop of the functions:config:export action    *)
(* Each specification leaves the variables of the other three at their     *)
(* idle values.                                                            *)
(***************************************************************************)
EXTENDS Naturals, Sequences, FiniteSets, TLC

VARIABLES
    \* SpecBackend
    want,        \* backend.Backend being built (parseTriggers.ts:131)
    lastCall,    \* argument and outcome of the latest addResourcesToBackend call
    calls,       \* number of addResourcesToBackend calls made on `want`
    folded,      \* name and regions of the annotations passed to those calls
    \* SpecParse
    promise,     \* the promise parseTriggers returns (parseTriggers.ts:79)
    child,       \* the forked parser process: "running" or "exited"
    ipc,         \* messages the child has sent that no handler has seen yet
    exitEvent,   \* the child's exit event, queued until its handler runs
    delivered,   \* the events handed to the two handlers so far, in order
    discover,    \* discoverBackend: awaiting the promise, returned or threw
    \* SpecEnv
    envCall,     \* argument and outcome of the latest configToEnv call
    \* SpecExport
    export       \* the functions:config:export action (lines 275-319)

backendVars == <<want, lastCall, calls, folded>>

parseVars == <<promise, child, ipc, exitEvent, delivered, discover>>

vars == <<want, lastCall, calls, folded, promise, child, ipc, exitEvent, delivered,
          discover, envCall, export>>

-----------------------------------------------------------------------------
(* Bounds                                                                  *)

\* addResourcesToBackend calls made on one aggregate
MaxCalls == 2
\* longest annotation.regions list
MaxRegions == 2
\* messages the parser process sends before it exits
MaxMessages == 2
\* leaves of a flattened config object
MaxLeaves == 2
\* times the export action asks for a prefix
MaxRounds == 2

-----------------------------------------------------------------------------
(* Backend Builder: parseTriggers.ts:138-246                               *)

\* api.functionsDefaultRegion
functionsDefaultRegion == "us-central1"

Regions == {functionsDefaultRegion, "europe-west1"}

FunctionNames == {"f", "g"}

\* the projectId and runtime arguments of discoverBackend
ProjectId == "proj"

Runtime == "nodejs14"

\* every list over S of length at most n
SeqsUpTo(S, n) == UNION {[1..k -> S] : k \in 0..n}

\* the fields of an annotation that no branch of the trigger check reads
\* follow its name: "f" is a plain first-generation function, "g" a scheduled
\* second-generation one with a failure policy and a label
ProfileOf(name) ==
    IF name = "f"
    THEN [hasPlatform |-> FALSE, platform |-> "gcfv1", failurePolicy |-> FALSE,
          labels |-> {}, scheduled |-> FALSE]
    ELSE [hasPlatform |-> TRUE, platform |-> "gcfv2", failurePolicy |-> TRUE,
          labels |-> {<<"team", "x">>}, scheduled |-> TRUE]

\* TriggerAnnotation: an optional field is a has-flag and a value
TriggerAnnotation(name, https, event, hasRegions, regions) ==
    [name |-> name,
     hasPlatform |-> ProfileOf(name).hasPlatform,
     platform |-> ProfileOf(name).platform,
     labels |-> ProfileOf(name).labels,
     entryPoint |-> name,
     httpsTrigger |-> [present |-> https, hasAllowInsecure |-> FALSE,
                       allowInsecure |-> FALSE],
     eventTrigger |-> [present |-> event, eventType |-> "pubsub.publish",
                       resource |-> "projects/proj/topics"],
     failurePolicy |-> ProfileOf(name).failurePolicy,
     schedule |-> [present |-> ProfileOf(name).scheduled,
                   schedule |-> "every 5 minutes"],
     hasRegions |-> hasRegions,
     regions |-> regions]

\* the annotations a call may be given: regions absent, or any list of at
\* most MaxRegions regions (the empty list and repeated regions included)
Annotations ==
    {TriggerAnnotation(n, h, e, TRUE, rs) :
        n \in FunctionNames, h \in BOOLEAN, e \in BOOLEAN,
        rs \in SeqsUpTo(Regions, MaxRegions)}
    \cup
    {TriggerAnnotation(n, h, e, FALSE, <<>>) :
        n \in FunctionNames, h \in BOOLEAN, e \in BOOLEAN}

\* backend.empty()
EmptyBackend ==
    [requiredAPIs |-> {}, cloudFunctions |-> <<>>, schedules |-> <<>>,
     topics |-> <<>>]

\* want.requiredAPIs[key] = value
SetAPI(apis, key, value) == {p \in apis : p[1] /= key} \cup {<<key, value>>}

\* backend.scheduleIdForFunction
scheduleIdForFunction(fn) == "firebase-schedule-" \o fn.id \o "-" \o fn.region

\* annotation.regions || [api.functionsDefaultRegion]: an empty array is truthy
RegionsToVisit(annotation) ==
    IF annotation.hasRegions THEN annotation.regions
    ELSE <<functionsDefaultRegion>>

\* !!annotation.httpsTrigger == !!annotation.eventTrigger
BothOrNeither(annotation) ==
    annotation.httpsTrigger.present = annotation.eventTrigger.present

\* the trigger of lines 156-175
BuildTrigger(annotation) ==
    IF annotation.httpsTrigger.present
    THEN [kind |-> "https",
          allowInsecure |->
              IF annotation.httpsTrigger.hasAllowInsecure
              THEN annotation.httpsTrigger.allowInsecure
              ELSE (~annotation.hasPlatform) \/ annotation.platform = "gcfv1"]
    ELSE [kind |-> "event",
          eventType |-> annotation.eventTrigger.eventType,
          eventFilters |-> [resource |-> annotation.eventTrigger.resource],
          retry |-> annotation.failurePolicy]

\* `${cloudFunction.trigger.eventFilters.resource}/${id}`
AppendScheduleId(resource, id) == resource \o "/" \o id

\* lines 234-236
RewriteTrigger(trigger, id) ==
    IF trigger.kind = "event"
    THEN [trigger EXCEPT !.eventFilters.resource = AppendScheduleId(@, id)]
    ELSE trigger

\* faulty variant: every function is placed in the default region
TargetIdsDefaultRegion(annotation, region) ==
    [id |-> annotation.name, region |-> functionsDefaultRegion,
     project |-> ProjectId]

\* lines 176-180
TargetIds(annotation, region) ==
    [id |-> annotation.name, region |-> region, project |-> ProjectId]

\* lines 211-212
RequireScheduleAPIs(apis) ==
    SetAPI(SetAPI(apis, "pubsub", "pubsub.googleapis.com"),
           "scheduler", "cloudscheduler.googleapis.com")

\* lines 215-221
ScheduleSpec(annotation, fn) ==
    [id |-> scheduleIdForFunction(fn), project |-> ProjectId,
     schedule |-> annotation.schedule.schedule, transport |-> "pubsub",
     targetService |-> fn]

\* faulty variant: the topic id leaves the region out
PubSubSpecIdWithoutRegion(annotation, fn) ==
    [id |-> "firebase-schedule-" \o fn.id, project |-> ProjectId,
     labels |-> {<<"deployment", "firebase-schedule">>},
     targetService |-> fn]

\* lines 224-229
PubSubSpec(annotation, fn) ==
    [id |-> scheduleIdForFunction(fn), project |-> ProjectId,
     labels |-> {<<"deployment", "firebase-schedule">>},
     targetService |-> fn]

\* lines 181-187, 195-208 (labels) and 234-241
FunctionSpec(annotation, region) ==
    LET fn == TargetIds(annotation, region)
        trigger == BuildTrigger(annotation)
    IN  [platform |-> IF annotation.hasPlatform THEN annotation.platform
                      ELSE "gcfv1",
         id |-> fn.id, region |-> fn.region, project |-> fn.project,
         entryPoint |-> annotation.entryPoint,
         runtime |-> Runtime,
         trigger |-> IF annotation.schedule.present
                     THEN RewriteTrigger(trigger, scheduleIdForFunction(fn))
                     ELSE trigger,
         labels |-> IF annotation.schedule.present
                    THEN {p \in annotation.labels : p[1] /= "deployment-scheduled"}
                         \cup {<<"deployment-scheduled", "true">>}
                    ELSE annotation.labels]

\* faulty variant: eventFilters is annotation.eventTrigger itself, not a copy
AnnotationAfterRewriteAliased(annotation, rewritten) ==
    IF rewritten.kind = "event"
    THEN [annotation EXCEPT
            !.eventTrigger.resource = rewritten.eventFilters.resource]
    ELSE annotation

\* what the assignment of line 235 leaves in the annotation: it writes to the
\* eventFilters object built at lines 170-172, which holds a copy of the
\* resource string, so annotation.eventTrigger keeps its resource
AnnotationAfterRewrite(annotation, rewritten) == annotation

\* one iteration of the loop of line 146, on the loop state
\* [thrown, annotation, want]; the throw of line 151 leaves the iteration
\* before anything is written
LoopBody(st, region) ==
    IF BothOrNeither(st.annotation)
    THEN [st EXCEPT !.thrown = TRUE]
    ELSE LET fn == TargetIds(st.annotation, region)
             w == st.want
             cloudFunction == FunctionSpec(st.annotation, region)
             scheduled ==
                 [w EXCEPT
                    !.requiredAPIs = RequireScheduleAPIs(@),
                    !.schedules = Append(@, ScheduleSpec(st.annotation, fn)),
                    !.topics = Append(@, PubSubSpec(st.annotation, fn))]
             w2 == IF st.annotation.schedule.present THEN scheduled ELSE w
         IN  [st EXCEPT
                !.annotation =
                    IF st.annotation.schedule.present
                    THEN AnnotationAfterRewrite(@, cloudFunction.trigger)
                    ELSE @,
                !.want = [w2 EXCEPT !.cloudFunctions = Append(@, cloudFunction)]]

\* the loop of lines 146-245 from its i-th region on
RECURSIVE RunLoop(_, _, _)
RunLoop(st, regions, i) ==
    IF i > Len(regions) \/ st.thrown THEN st
    ELSE RunLoop(LoopBody(st, regions[i]), regions, i + 1)

\* addResourcesToBackend(projectId, runtime, annotation, want)
addResourcesToBackend(annotation, w) ==
    RunLoop([thrown |-> FALSE, annotation |-> annotation, want |-> w],
            RegionsToVisit(annotation), 1)

\* no call made yet
NoCall == [made |-> FALSE]

InitBackend ==
    /\ want = EmptyBackend
    /\ lastCall = NoCall
    /\ calls = 0
    /\ folded = <<>>

\* one call of addResourcesToBackend on the aggregate
AddResources ==
    /\ calls < MaxCalls
    /\ \E annotation \in Annotations :
          LET r == addResourcesToBackend(annotation, want)
          IN  /\ want' = r.want
              /\ lastCall' = [made |-> TRUE, arg |-> annotation,
                              thrown |-> r.thrown,
                              eventTriggerAfter |-> r.annotation.eventTrigger,
                              before |-> Len(want.cloudFunctions)]
              /\ folded' = Append(folded, [name |-> annotation.name,
                                            regions |-> annotation.regions])
    /\ calls' = calls + 1
    /\ UNCHANGED <<parseVars, envCall, export>>

-----------------------------------------------------------------------------
(* Properties of the Backend Builder                                       *)

\* the function resources the latest call appended
Added ==
    SubSeq(want.cloudFunctions, lastCall.before + 1, Len(want.cloudFunctions))

NoRepeat(seq) == \A i, j \in DOMAIN seq : i /= j => seq[i] /= seq[j]

ExactlyOneTrigger(annotation) ==
    annotation.httpsTrigger.present /= annotation.eventTrigger.present

SameTriple(a, b) ==
    a.id = b.id /\ a.region = b.region /\ a.project = b.project

\* C1: a call whose annotation has both httpsTrigger and eventTrigger, or
\* neither, fails with the structural-consistency error, whatever its regions
\* field is (absent, empty, non-empty).
C1_BothOrNeitherAlwaysThrows ==
    (lastCall.made /\ ~ExactlyOneTrigger(lastCall.arg)) => lastCall.thrown

\* C2: a call with a well-formed annotation (exactly one trigger, no region
\* listed twice) appends one function resource per listed region, all with
\* the annotation's name as id and with pairwise distinct regions, when the
\* list has at least one entry; and exactly one resource, in the default
\* region, when the regions field is absent or an empty list.
C2_OneResourcePerRegionOrDefault ==
    (/\ lastCall.made
     /\ ExactlyOneTrigger(lastCall.arg)
     /\ NoRepeat(lastCall.arg.regions))
    => IF lastCall.arg.hasRegions /\ Len(lastCall.arg.regions) >= 1
       THEN /\ Len(Added) = Len(lastCall.arg.regions)
            /\ \A k \in DOMAIN Added : Added[k].id = lastCall.arg.name
            /\ \A i, j \in DOMAIN Added :
                  i /= j => Added[i].region /= Added[j].region
       ELSE /\ Len(Added) = 1
            /\ Added[1].id = lastCall.arg.name
            /\ Added[1].region = functionsDefaultRegion

\* C3 as stated: whatever annotations were folded, no two function resources
\* of the aggregate have the same (id, region, project).
C3_TriplesUniqueForAnyAnnotations ==
    \A i, j \in DOMAIN want.cloudFunctions :
        i /= j => ~SameTriple(want.cloudFunctions[i], want.cloudFunctions[j])

\* C3 amended: when the folded annotations have pairwise distinct names and
\* none of their regions lists names a region twice, no two function
\* resources of the aggregate have the same (id, region, project).
C3_TriplesUniqueForDistinctNamesAndRegions ==
    (/\ \A i, j \in DOMAIN folded : i /= j => folded[i].name /= folded[j].name
     /\ \A i \in DOMAIN folded : NoRepeat(folded[i].regions))
    => \A i, j \in DOMAIN want.cloudFunctions :
          i /= j => ~SameTriple(want.cloudFunctions[i], want.cloudFunctions[j])

\* two annotations of different names, each in two regions, were folded
C3_Witness ==
    /\ Len(folded) = 2
    /\ folded[1].name /= folded[2].name
    /\ \A i \in DOMAIN folded : NoRepeat(folded[i].regions)
    /\ Len(want.cloudFunctions) = 4

\* C4: after any sequence of calls, failing ones included, every schedule has
\* a topic with the same id, project and target function, and an aggregate
\* with a schedule requires both the pubsub and the scheduler API.
C4_ScheduleHasTopicAndAPIs ==
    /\ \A k \in DOMAIN want.schedules :
          \E t \in DOMAIN want.topics :
              /\ want.topics[t].id = want.schedules[k].id
              /\ want.topics[t].project = want.schedules[k].project
              /\ want.topics[t].targetService = want.schedules[k].targetService
    /\ want.schedules /= <<>> =>
          /\ \E p \in want.requiredAPIs : p[1] = "pubsub"
          /\ \E p \in want.requiredAPIs : p[1] = "scheduler"

\* a failing call was made on an aggregate that holds two schedules
C4_Witness ==
    /\ lastCall.made
    /\ lastCall.thrown
    /\ Len(want.schedules) = 2

\* C5: after a call with an event trigger and a schedule, the function
\* resource of each region r carries the annotation's own resource followed
\* by one "/" and the schedule id of (name, r, project), and the annotation's
\* eventTrigger.resource is what it was before the call.
C5_ResourceSuffixedOncePerRegion ==
    (/\ lastCall.made
     /\ lastCall.arg.eventTrigger.present
     /\ ~lastCall.arg.httpsTrigger.present
     /\ lastCall.arg.schedule.present)
    => /\ lastCall.arg.hasRegions =>
             /\ Len(Added) = Len(lastCall.arg.regions)
             /\ \A k \in DOMAIN Added : Added[k].region = lastCall.arg.regions[k]
       /\ \A k \in DOMAIN Added :
             Added[k].trigger.eventFilters.resource =
                 lastCall.arg.eventTrigger.resource \o "/"
                 \o scheduleIdForFunction(
                        [id |-> lastCall.arg.name, region |-> Added[k].region,
                         project |-> ProjectId])
       /\ lastCall.eventTriggerAfter = lastCall.arg.eventTrigger

\* a scheduled event function was added in two regions
C5_Witness ==
    /\ lastCall.made
    /\ lastCall.arg.eventTrigger.present
    /\ ~lastCall.arg.httpsTrigger.present
    /\ lastCall.arg.schedule.present
    /\ Len(lastCall.arg.regions) = 2
    /\ Len(Added) = 2

-----------------------------------------------------------------------------
(* Annotation discovery: parseTriggers.ts:73-136                           *)

\* the annotation lists a parser message may carry: none, one well-formed
\* function, and a scheduled function in two regions followed by an
\* annotation with no trigger
TriggerLists ==
    {<<>>,
     <<TriggerAnnotation("f", TRUE, FALSE, FALSE, <<>>)>>,
     <<TriggerAnnotation("g", FALSE, TRUE, TRUE,
                         <<functionsDefaultRegion, "europe-west1">>),
       TriggerAnnotation("f", FALSE, FALSE, FALSE, <<>>)>>}

\* the texts of the errors the parser script reports; none is empty
ErrorTexts == {"Error occurred while parsing your function triggers."}

\* the child's exit statuses
ExitCodes == {0, 1}

\* a message of the child: each of its two fields is a has-flag and a value
Message(hasTriggers, triggers, hasError, error) ==
    [type |-> "message", hasTriggers |-> hasTriggers, triggers |-> triggers,
     hasError |-> hasError, error |-> error, code |-> 0]

\* what the child may send: triggers, an error, or neither
ParserMessages ==
    {Message(TRUE, t, FALSE, "") : t \in TriggerLists}
    \cup {Message(FALSE, <<>>, TRUE, e) : e \in ErrorTexts}
    \cup {Message(FALSE, <<>>, FALSE, "")}

ExitEvent(code) ==
    [type |-> "exit", hasTriggers |-> FALSE, triggers |-> <<>>,
     hasError |-> FALSE, error |-> "", code |-> code]

Pending == [state |-> "pending", triggers |-> <<>>, error |-> "", exit |-> 0]

\* resolve(message.triggers)
Resolved(triggers) ==
    [state |-> "fulfilled", triggers |-> triggers, error |-> "", exit |-> 0]

\* reject(new FirebaseError(message, { exit }))
Rejected(message, exit) ==
    [state |-> "rejected", triggers |-> <<>>, error |-> message, exit |-> exit]

UnknownProblem ==
    "There was an unknown problem while trying to parse function triggers."

\* faulty variant: a later resolve or reject replaces the outcome
SettleLastWins(p, outcome) == outcome

\* resolve and reject of the executor of line 79: only the first call settles
\* the promise
Settle(p, outcome) == IF p.state = "pending" THEN outcome ELSE p

\* parser.on("message", ...), lines 97-103: an array is truthy even when
\* empty, a string only when not empty
OnMessage(p, message) ==
    IF message.hasTriggers
    THEN Settle(p, Resolved(message.triggers))
    ELSE IF message.hasError /\ message.error /= ""
         THEN Settle(p, Rejected(message.error, 1))
         ELSE p

\* parser.on("exit", ...), lines 105-114
OnExit(p, code) ==
    IF code /= 0 THEN Settle(p, Rejected(UnknownProblem, 2)) ELSE p

\* the loop of discoverBackend, lines 132-134, from the i-th annotation on:
\* a throw of addResourcesToBackend leaves the loop
RECURSIVE FoldAnnotations(_, _, _)
FoldAnnotations(st, annotations, i) ==
    IF i > Len(annotations) \/ st.thrown THEN st
    ELSE LET r == addResourcesToBackend(annotations[i], st.want)
         IN  FoldAnnotations([thrown |-> r.thrown, want |-> r.want],
                             annotations, i + 1)

StructuralError ==
    "Unexpected annotation generated by the Firebase Functions SDK. This should never happen."

Awaiting == [state |-> "awaiting"]

\* discoverBackend after the await of line 130
DiscoverOutcome(p) ==
    IF p.state = "rejected"
    THEN [state |-> "threw", error |-> p.error]
    ELSE LET r == FoldAnnotations([thrown |-> FALSE, want |-> EmptyBackend],
                                  p.triggers, 1)
         IN  IF r.thrown
             THEN [state |-> "threw", want |-> r.want, error |-> StructuralError]
             ELSE [state |-> "returned", want |-> r.want]

NoExitEvent == [queued |-> FALSE, code |-> 0]

\* the messages the child has sent so far
Sent == Len(ipc) + Cardinality({i \in DOMAIN delivered : delivered[i].type = "message"})

InitParse ==
    /\ promise = Pending
    /\ child = "running"
    /\ ipc = <<>>
    /\ exitEvent = NoExitEvent
    /\ delivered = <<>>
    /\ discover = Awaiting

\* the child calls process.send
ChildSend ==
    /\ child = "running"
    /\ Sent < MaxMessages
    /\ \E m \in ParserMessages : ipc' = Append(ipc, m)
    /\ UNCHANGED <<promise, child, exitEvent, delivered, discover>>
    /\ UNCHANGED <<backendVars, envCall, export>>

\* the child terminates
ChildExit ==
    /\ child = "running"
    /\ child' = "exited"
    /\ \E code \in ExitCodes : exitEvent' = [queued |-> TRUE, code |-> code]
    /\ UNCHANGED <<promise, ipc, delivered, discover>>
    /\ UNCHANGED <<backendVars, envCall, export>>

\* the event loop runs the "message" handler on the oldest undelivered message
DeliverMessage ==
    /\ ipc /= <<>>
    /\ promise' = OnMessage(promise, Head(ipc))
    /\ ipc' = Tail(ipc)
    /\ delivered' = Append(delivered, Head(ipc))
    /\ UNCHANGED <<child, exitEvent, discover>>
    /\ UNCHANGED <<backendVars, envCall, export>>

\* the event loop runs the "exit" handler
DeliverExit ==
    /\ exitEvent.queued
    /\ promise' = OnExit(promise, exitEvent.code)
    /\ exitEvent' = [exitEvent EXCEPT !.queued = FALSE]
    /\ delivered' = Append(delivered, ExitEvent(exitEvent.code))
    /\ UNCHANGED <<child, ipc, discover>>
    /\ UNCHANGED <<backendVars, envCall, export>>

\* discoverBackend resumes once the promise is settled
DiscoverResume ==
    /\ discover.state = "awaiting"
    /\ promise.state /= "pending"
    /\ discover' = DiscoverOutcome(promise)
    /\ UNCHANGED <<promise, child, ipc, exitEvent, delivered>>
    /\ UNCHANGED <<backendVars, envCall, export>>

NextParse ==
    \/ ChildSend
    \/ ChildExit
    \/ DeliverMessage
    \/ DeliverExit
    \/ DiscoverResume

-----------------------------------------------------------------------------
(* Properties of annotation discovery                                      *)

\* an event that decides the call: a message with triggers or with an error,
\* or an exit with a status other than 0
IsTerminal(e) ==
    \/ e.type = "message" /\ (e.hasTriggers \/ e.hasError)
    \/ e.type = "exit" /\ e.code /= 0

TerminalsDelivered == {i \in DOMAIN delivered : IsTerminal(delivered[i])}

FirstTerminal ==
    delivered[CHOOSE i \in TerminalsDelivered :
                  \A j \in TerminalsDelivered : i <= j]

\* C8: in every order of the message and exit events the promise is settled
\* by the first terminal event delivered and by no later one: triggers
\* fulfil it with those triggers, an error rejects it with that text, an exit
\* status other than 0 rejects it with the "unknown problem" text; before any
\* terminal event it is pending.
C8_FirstTerminalEventDecides ==
    IF TerminalsDelivered = {}
    THEN promise.state = "pending"
    ELSE IF FirstTerminal.type = "message" /\ FirstTerminal.hasTriggers
         THEN /\ promise.state = "fulfilled"
              /\ promise.triggers = FirstTerminal.triggers
         ELSE IF FirstTerminal.type = "message"
              THEN /\ promise.state = "rejected"
                   /\ promise.error = FirstTerminal.error
              ELSE /\ promise.state = "rejected"
                   /\ promise.error = UnknownProblem

\* an exit with status 1 was delivered before a message with triggers
C8_Witness ==
    /\ Len(delivered) >= 2
    /\ delivered[1].type = "exit"
    /\ delivered[1].code /= 0
    /\ \E i \in DOMAIN delivered :
          delivered[i].type = "message" /\ delivered[i].hasTriggers

\* C9: once the parser process has exited and its events have all been
\* handled, the discovery call has completed with a result or a failure.
C9_CompletedOnceParserIsGone ==
    (child = "exited" /\ ~exitEvent.queued /\ ipc = <<>>)
    => promise.state /= "pending"

-----------------------------------------------------------------------------
(* Key/Config Translator: functions-config-export.ts:138-190               *)
(* A key is the sequence of its characters.                                *)

LowerCase ==
    <<"a", "b", "c", "d", "e", "f", "g", "h", "i", "j", "k", "l", "m",
      "n", "o", "p", "q", "r", "s", "t", "u", "v", "w", "x", "y", "z">>

UpperCase ==
    <<"A", "B", "C", "D", "E", "F", "G", "H", "I", "J", "K", "L", "M",
      "N", "O", "P", "Q", "R", "S", "T", "U", "V", "W", "X", "Y", "Z">>

Digits == {"0", "1", "2", "3", "4", "5", "6", "7", "8", "9"}

Range(f) == {f[i] : i \in DOMAIN f}

\* String.prototype.toUpperCase, one character
toUpperCase(c) ==
    IF c \in Range(LowerCase)
    THEN UpperCase[CHOOSE i \in DOMAIN LowerCase : LowerCase[i] = c]
    ELSE c

\* .replace(/\./g, "_").replace(/-/g, "_"), one character
DotDashToUnderscore(c) == IF c = "." \/ c = "-" THEN "_" ELSE c

\* baseKey of lines 140-143
TransformKey(configKey) ==
    [i \in DOMAIN configKey |-> DotDashToUnderscore(toUpperCase(configKey[i]))]

\* /^[A-Z_][A-Z0-9_]*$/
MatchesKeyPattern(key) ==
    /\ key /= <<>>
    /\ key[1] \in Range(UpperCase) \cup {"_"}
    /\ \A i \in DOMAIN key : key[i] \in Range(UpperCase) \cup Digits \cup {"_"}

ReservedPrefixes ==
    {<<"F", "I", "R", "E", "B", "A", "S", "E", "_">>,
     <<"X", "_", "G", "O", "O", "G", "L", "E", "_">>}

StartsWith(key, prefix) ==
    Len(key) >= Len(prefix) /\ SubSeq(key, 1, Len(prefix)) = prefix

ValidKey == [kind |-> "ok", key |-> <<>>, message |-> ""]

\* a KeyValidationError: it carries the key it was thrown for and a message
KeyValidationError(key, message) ==
    [kind |-> "validation", key |-> key, message |-> message]

\* any other error thrown while a key is validated
OtherError(key) == [kind |-> "other", key |-> key, message |-> "TypeError"]

\* env.validateKey: the identifier pattern, then the reserved prefixes; on the
\* keys of `faulty` it fails with an error that is no KeyValidationError
validateKey(key, faulty) ==
    IF key \in faulty THEN OtherError(key)
    ELSE IF ~MatchesKeyPattern(key)
         THEN KeyValidationError(key, "must start with an uppercase letter or underscore")
         ELSE IF \E p \in ReservedPrefixes : StartsWith(key, p)
              THEN KeyValidationError(key, "starts with a reserved prefix")
              ELSE ValidKey

\* faulty variant: no retry with the prefix, the first validation failure is thrown
convertKeyWithoutRetry(configKey, prefix, faulty) ==
    LET baseKey == TransformKey(configKey)
        first == validateKey(baseKey, faulty)
    IN  IF first.kind = "validation"
        THEN [thrown |-> TRUE, envKey |-> baseKey, err |-> first]
        ELSE [thrown |-> FALSE, envKey |-> baseKey, err |-> ValidKey]

\* convertKey, lines 138-155: [thrown, envKey, err]. The catch of line 148
\* handles a KeyValidationError by the prefixed retry, whose own failure
\* leaves the function, and ends without rethrowing any other error
convertKey(configKey, prefix, faulty) ==
    LET baseKey == TransformKey(configKey)
        first == validateKey(baseKey, faulty)
        second == validateKey(prefix \o baseKey, faulty)
    IN  IF first.kind = "ok"
        THEN [thrown |-> FALSE, envKey |-> baseKey, err |-> ValidKey]
        ELSE IF first.kind = "validation"
             THEN IF second.kind = "ok"
                  THEN [thrown |-> FALSE, envKey |-> prefix \o baseKey,
                        err |-> ValidKey]
                  ELSE [thrown |-> TRUE, envKey |-> prefix \o baseKey,
                        err |-> second]
             ELSE [thrown |-> FALSE, envKey |-> baseKey, err |-> ValidKey]

\* the body of the loop of line 169 on [thrown, success, errors]
ConvertLeaf(st, leaf, prefix, faulty) ==
    LET r == convertKey(leaf.key, prefix, faulty)
    IN  IF ~r.thrown
        THEN [st EXCEPT !.success =
                 Append(@, [origKey |-> leaf.key, newKey |-> r.envKey,
                            value |-> leaf.value])]
        ELSE IF r.err.kind = "validation"
             THEN [st EXCEPT !.errors =
                      Append(@, [origKey |-> leaf.key, newKey |-> r.err.key,
                                 err |-> r.err.message, value |-> leaf.value])]
             ELSE [st EXCEPT !.thrown = TRUE]

RECURSIVE ConvertLeaves(_, _, _, _, _)
ConvertLeaves(st, leaves, i, prefix, faulty) ==
    IF i > Len(leaves) \/ st.thrown THEN st
    ELSE ConvertLeaves(ConvertLeaf(st, leaves[i], prefix, faulty), leaves,
                       i + 1, prefix, faulty)

\* configToEnv, lines 165-190, on the leaves flatten(configs) yields; when it
\* throws "Unexpected error while converting config" it returns no list
configToEnv(leaves, prefix, faulty) ==
    LET st == ConvertLeaves([thrown |-> FALSE, success |-> <<>>, errors |-> <<>>],
                            leaves, 1, prefix, faulty)
    IN  IF st.thrown
        THEN [thrown |-> TRUE, success |-> <<>>, errors |-> <<>>]
        ELSE st

\* config keys: "a.b", "a-b", "1x", "firebase.x", "a$"
ConfigKeys ==
    {<<"a", ".", "b">>, <<"a", "-", "b">>, <<"1", "x">>,
     <<"f", "i", "r", "e", "b", "a", "s", "e", ".", "x">>, <<"a", "$">>}

\* prefixes: "", "C_", "9"
Prefixes == {<<>>, <<"C", "_">>, <<"9">>}

Leaf(key) == [key |-> key, value |-> "v"]

\* the leaves of a flattened object: at most MaxLeaves entries, no key twice
FlattenedConfigs ==
    {ls \in SeqsUpTo({Leaf(k) : k \in ConfigKeys}, MaxLeaves) :
        \A i, j \in DOMAIN ls : i /= j => ls[i] /= ls[j]}

\* the keys validateKey can be called on
CandidateKeys ==
    {TransformKey(k) : k \in ConfigKeys}
    \cup {p \o TransformKey(k) : p \in Prefixes, k \in ConfigKeys}

\* the validator is sound, or fails unexpectedly on one key
FaultSets == {{}} \cup {{k} : k \in CandidateKeys}

\* the arguments of a configToEnv call and the validator it will meet
InitEnv ==
    \E leaves \in FlattenedConfigs, prefix \in Prefixes, faulty \in FaultSets :
        envCall = [made |-> FALSE, leaves |-> leaves, prefix |-> prefix,
                   faulty |-> faulty]

\* the call of configToEnv
ConfigToEnv ==
    /\ ~envCall.made
    /\ LET r == configToEnv(envCall.leaves, envCall.prefix, envCall.faulty)
       IN  envCall' = [made |-> TRUE, leaves |-> envCall.leaves,
                       prefix |-> envCall.prefix, faulty |-> envCall.faulty,
                       thrown |-> r.thrown, success |-> r.success,
                       errors |-> r.errors]
    /\ UNCHANGED <<backendVars, parseVars, export>>

-----------------------------------------------------------------------------
(* Properties of the Key/Config Translator                                 *)

\* the first or the prefixed validation of the leaf fails with an error that
\* is no KeyValidationError
FailsUnexpectedly(leaf) ==
    LET baseKey == TransformKey(leaf.key)
    IN  \/ validateKey(baseKey, envCall.faulty).kind = "other"
        \/ /\ validateKey(baseKey, envCall.faulty).kind = "validation"
           /\ validateKey(envCall.prefix \o baseKey, envCall.faulty).kind = "other"

\* C6: when the validation of some leaf's key, unprefixed or prefixed, fails
\* with an error that is no validation error, configToEnv throws; the leaf is
\* in neither list.
C6_UnexpectedFailureAborts ==
    (/\ envCall.made
     /\ \E k \in DOMAIN envCall.leaves : FailsUnexpectedly(envCall.leaves[k]))
    => envCall.thrown

KeyIsValid(key) == validateKey(key, {}).kind = "ok"

\* neither the transformed key nor the prefixed one is valid
Unconvertible(leaf) ==
    /\ ~KeyIsValid(TransformKey(leaf.key))
    /\ ~KeyIsValid(envCall.prefix \o TransformKey(leaf.key))

Convertible(leaf) == ~Unconvertible(leaf)

ExpectedSuccess ==
    LET kept == SelectSeq(envCall.leaves, Convertible)
    IN  [k \in DOMAIN kept |->
            [origKey |-> kept[k].key,
             newKey |-> IF KeyIsValid(TransformKey(kept[k].key))
                        THEN TransformKey(kept[k].key)
                        ELSE envCall.prefix \o TransformKey(kept[k].key),
             value |-> kept[k].value]]

ExpectedErrors ==
    LET bad == SelectSeq(envCall.leaves, Unconvertible)
    IN  [k \in DOMAIN bad |->
            [origKey |-> bad[k].key,
             newKey |-> envCall.prefix \o TransformKey(bad[k].key),
             err |-> validateKey(envCall.prefix \o TransformKey(bad[k].key),
                                 {}).message,
             value |-> bad[k].value]]

\* C7: with a validator that fails only with validation errors, configToEnv
\* does not throw and puts every leaf, in flatten order, in exactly one list:
\* in success under the transformed key when that key is valid, else in
\* success under prefix + transformed key when that is valid, else in errors
\* under prefix + transformed key with the validator's message. "a.b" is
\* transformed to "A_B" and "firebase.x" to "FIREBASE_X".
C7_EveryLeafConvertedOrCollected ==
    (envCall.made /\ envCall.faulty = {})
    => /\ ~envCall.thrown
       /\ envCall.success = ExpectedSuccess
       /\ envCall.errors = ExpectedErrors
       /\ Len(envCall.success) + Len(envCall.errors) = Len(envCall.leaves)
       /\ \A k \in DOMAIN envCall.success :
             envCall.success[k].origKey = <<"a", ".", "b">>
             => envCall.success[k].newKey = <<"A", "_", "B">>
       /\ \A k \in DOMAIN envCall.errors :
             envCall.errors[k].origKey
                 = <<"f", "i", "r", "e", "b", "a", "s", "e", ".", "x">>
             => envCall.errors[k].newKey
                    = envCall.prefix
                      \o <<"F", "I", "R", "E", "B", "A", "S", "E", "_", "X">>

\* one leaf was converted with the prefix and another was collected as an error
C7_Witness ==
    /\ envCall.made
    /\ envCall.faulty = {}
    /\ envCall.prefix /= <<>>
    /\ \E k \in DOMAIN envCall.success :
          envCall.success[k].newKey
              = envCall.prefix \o TransformKey(envCall.success[k].origKey)
    /\ envCall.errors /= <<>>

-----------------------------------------------------------------------------
(* functions:config:export, the prefix loop and the files:                 *)
(* functions-config-export.ts:275-319                                      *)

ProjectIds == {"p1", "p2"}

\* the projects left by the checks of lines 262-267: any selection, in any
\* order, possibly none
ProjectLists ==
    {ps \in SeqsUpTo(ProjectIds, Cardinality(ProjectIds)) :
        \A i, j \in DOMAIN ps : i /= j => ps[i] /= ps[j]}

\* what functionsConfig.materializeAll may return for a project: "a.b" alone,
\* "1x" alone, or "a.b" with "a$"
MaterializedConfigs ==
    {<<Leaf(<<"a", ".", "b">>)>>,
     <<Leaf(<<"1", "x">>)>>,
     <<Leaf(<<"a", ".", "b">>), Leaf(<<"a", "$">>)>>}

\* results.every((result) => result.configToEnvResult.errors.length == 0)
EveryResultClean(results) ==
    \A k \in DOMAIN results : results[k].configToEnvResult.errors = <<>>

\* lines 289-296: one temporary dotenv file per result, in order
WriteTmpDotenvs(results) ==
    [k \in DOMAIN results |->
        [project |-> results[k].project,
         envs |-> results[k].configToEnvResult.success]]

\* the end of one pass of the while loop, lines 282-298: leave the loop and
\* write the files, or go and ask for a prefix
EndOfRound(e) ==
    IF EveryResultClean(e.results)
    THEN [e EXCEPT !.pc = IF e.results = <<>> THEN "done" ELSE "copy",
                   !.tmpDotenvs = WriteTmpDotenvs(e.results),
                   !.i = 1]
    ELSE [e EXCEPT !.pc = "prompt"]

\* faulty variant: the results of the pass are kept
AfterPromptKeepsResults(e, prefix) ==
    [e EXCEPT !.prefix = prefix, !.pc = "translate", !.i = 1, !.rounds = @ + 1]

\* lines 285-286 and the start of the next pass
AfterPrompt(e, prefix) ==
    [e EXCEPT !.prefix = prefix, !.results = <<>>, !.pc = "translate",
              !.i = 1, !.rounds = @ + 1]

\* line 280
PushResult(e, configs) ==
    [e EXCEPT !.results =
        Append(@, [project |-> e.projects[e.i],
                   prefix |-> e.prefix,
                   configToEnvResult |-> configToEnv(configs, e.prefix, {})])]

InitExport ==
    \E ps \in ProjectLists :
        export = [pc |-> "start", projects |-> ps, prefix |-> <<>>,
                  results |-> <<>>, i |-> 1, rounds |-> 0,
                  tmpDotenvs |-> <<>>, dotenvs |-> <<>>]

\* lines 275-278: enter the loop; with no project its first pass ends at once
StartExport ==
    /\ export.pc = "start"
    /\ export' = IF export.projects = <<>> THEN EndOfRound(export)
                 ELSE [export EXCEPT !.pc = "translate"]
    /\ UNCHANGED <<backendVars, parseVars, envCall>>

\* materializeAll answers for the i-th project: lines 279-280, and after the
\* last project the end of the pass
Materialize ==
    /\ export.pc = "translate"
    /\ \E configs \in MaterializedConfigs :
          LET e == PushResult(export, configs)
          IN  export' = IF export.i = Len(export.projects) THEN EndOfRound(e)
                        ELSE [e EXCEPT !.i = @ + 1]
    /\ UNCHANGED <<backendVars, parseVars, envCall>>

\* the user answers promptForPrefix
PromptForPrefix ==
    /\ export.pc = "prompt"
    /\ export.rounds < MaxRounds
    /\ \E prefix \in Prefixes : export' = AfterPrompt(export, prefix)
    /\ UNCHANGED <<backendVars, parseVars, envCall>>

\* lines 300-319: the i-th temporary file is copied, or skipped when the
\* target exists and the user declines to overwrite it
CopyDotenv ==
    /\ export.pc = "copy"
    /\ \E skip \in BOOLEAN :
          export' =
              [export EXCEPT
                 !.dotenvs = IF skip THEN @
                             ELSE Append(@, export.tmpDotenvs[export.i]),
                 !.i = @ + 1,
                 !.pc = IF export.i = Len(export.tmpDotenvs) THEN "done"
                        ELSE "copy"]
    /\ UNCHANGED <<backendVars, parseVars, envCall>>

NextExport ==
    \/ StartExport
    \/ Materialize
    \/ PromptForPrefix
    \/ CopyDotenv

-----------------------------------------------------------------------------
(* Properties of functions:config:export                                   *)

\* C10: no dotenv file exists before a pass in which every project's result
\* is free of errors; a prefix is asked for exactly after a complete pass
\* with an error; the results held are those of the current pass only, one
\* per project in order, made with the current prefix; and the files written
\* are those of the results of the last pass, one per selected project.
C10_FilesOnlyFromOneCleanPass ==
    /\ export.pc \in {"start", "translate", "prompt"} =>
          export.tmpDotenvs = <<>> /\ export.dotenvs = <<>>
    /\ Len(export.results) <= Len(export.projects)
    /\ \A k \in DOMAIN export.results :
          /\ export.results[k].project = export.projects[k]
          /\ export.results[k].prefix = export.prefix
    /\ export.pc = "prompt" =>
          /\ Len(export.results) = Len(export.projects)
          /\ \E k \in DOMAIN export.results :
                export.results[k].configToEnvResult.errors /= <<>>
    /\ export.pc \in {"copy", "done"} =>
          /\ Len(export.results) = Len(export.projects)
          /\ Len(export.tmpDotenvs) = Len(export.projects)
          /\ \A k \in DOMAIN export.results :
                /\ export.results[k].configToEnvResult.errors = <<>>
                /\ export.tmpDotenvs[k].project = export.projects[k]
                /\ export.tmpDotenvs[k].envs
                       = export.results[k].configToEnvResult.success

\* two projects were exported after the user had been asked for a prefix
C10_Witness ==
    /\ export.pc = "done"
    /\ export.rounds >= 1
    /\ Len(export.projects) = 2
    /\ Len(export.tmpDotenvs) = 2

-----------------------------------------------------------------------------
(* Specifications                                                          *)

IdleExport == export = [pc |-> "idle"]

IdleEnv == envCall = [made |-> FALSE]

IdleParse ==
    /\ promise = [state |-> "idle"]
    /\ child = "idle"
    /\ ipc = <<>>
    /\ exitEvent = NoExitEvent
    /\ delivered = <<>>
    /\ discover = [state |-> "idle"]

InitSpecBackend == InitBackend /\ IdleParse /\ IdleEnv /\ IdleExport

InitSpecParse == InitBackend /\ InitParse /\ IdleEnv /\ IdleExport

InitSpecEnv == InitBackend /\ IdleParse /\ InitEnv /\ IdleExport

InitSpecExport == InitBackend /\ IdleParse /\ IdleEnv /\ InitExport

SpecBackend == InitSpecBackend /\ [][AddResources]_vars

SpecParse == InitSpecParse /\ [][NextParse]_vars

SpecEnv == InitSpecEnv /\ [][ConfigToEnv]_vars

SpecExport == InitSpecExport /\ [][NextExport]_vars

=============================================================================
